---- MODULE Spec2Model ----
(***************************************************************************)
(* Model of life_expectancy/cleaning.py: the load -> clean -> save         *)
(* pipeline run by main, with clean_data modelled statement by statement   *)
(* over a heap of DataFrame objects.                                       *)
(*                                                                         *)
(* Text is a sequence of one-character strings, so that splitting,         *)
(* stripping and the two regular expressions are computed, not assumed.    *)
(* A cell is a record [t, s, m, e]: t is the Python type of the cell,      *)
(* s its text (t = "str"), and m, e the number m / 10^e (t = "int" or      *)
(* "float"; m carries the sign, and m is no multiple of 10 unless e = 0).  *)
(***************************************************************************)
EXTENDS Integers, Sequences, FiniteSets, TLC

VARIABLES
    fs,       \* the two files on disk: path -> content
    pc,       \* position of the running (or last) invocation of main
    country,  \* args.country of the running (or last) invocation
    heap,     \* the DataFrame objects created by the invocation, by identity
    env,      \* local names of main/clean_data -> object identity (0: unbound)
    prevRun   \* history: country and output of the last earlier successful run

vars == <<fs, pc, country, heap, env, prevRun>>

-----------------------------------------------------------------------------
(* Bounds of the model *)

MaxRows == 3

MaxYears == 2

MaxCells == 4

MaxCellLen == 3

-----------------------------------------------------------------------------
(* Cells *)

StrCell(s) == [t |-> "str", s |-> s, m |-> 0, e |-> 0]

IntCell(n) == [t |-> "int", s |-> <<>>, m |-> n, e |-> 0]

FloatCell(m, e) == [t |-> "float", s |-> <<>>, m |-> m, e |-> e]

NaNCell == [t |-> "nan", s |-> <<>>, m |-> 0, e |-> 0]

NoneCell == [t |-> "none", s |-> <<>>, m |-> 0, e |-> 0]

-----------------------------------------------------------------------------
(* Characters and text *)

Digits == {"0", "1", "2", "3", "4", "5", "6", "7", "8", "9"}

Signs == {"-", "+"}

Whitespace == {" ", "\t", "\n", "\r"}

DigitVal(c) ==
    CASE c = "0" -> 0 [] c = "1" -> 1 [] c = "2" -> 2 [] c = "3" -> 3
      [] c = "4" -> 4 [] c = "5" -> 5 [] c = "6" -> 6 [] c = "7" -> 7
      [] c = "8" -> 8 [] c = "9" -> 9

DigitChar(d) ==
    CASE d = 0 -> "0" [] d = 1 -> "1" [] d = 2 -> "2" [] d = 3 -> "3"
      [] d = 4 -> "4" [] d = 5 -> "5" [] d = 6 -> "6" [] d = 7 -> "7"
      [] d = 8 -> "8" [] d = 9 -> "9"

RECURSIVE Pow10(_)
Pow10(k) == IF k = 0 THEN 1 ELSE 10 * Pow10(k - 1)

Abs(n) == IF n < 0 THEN 0 - n ELSE n

\* int("2010"): the value of a run of digits
RECURSIVE StrToInt(_)
StrToInt(s) ==
    IF s = <<>> THEN 0
    ELSE 10 * StrToInt(SubSeq(s, 1, Len(s) - 1)) + DigitVal(s[Len(s)])

\* str(n) for n >= 0
RECURSIVE NatToStr(_)
NatToStr(n) ==
    IF n < 10 THEN <<DigitChar(n)>>
    ELSE NatToStr(n \div 10) \o <<DigitChar(n % 10)>>

IntToStr(n) == IF n < 0 THEN <<"-">> \o NatToStr(0 - n) ELSE NatToStr(n)

\* the k low digits of n, zero padded on the left
RECURSIVE PadDigits(_, _)
PadDigits(n, k) ==
    IF k = 0 THEN <<>>
    ELSE PadDigits(n \div 10, k - 1) \o <<DigitChar(n % 10)>>

\* repr of the float m / 10^e: always with a fraction part ("7.0", "-3.2")
FloatToStr(m, e) ==
    (IF m < 0 THEN <<"-">> ELSE <<>>)
        \o NatToStr(Abs(m) \div Pow10(e))
        \o <<".">>
        \o (IF e = 0 THEN <<"0">> ELSE PadDigits(Abs(m) % Pow10(e), e))

\* Series.astype(str), element by element
AsStr(c) ==
    CASE c.t = "str" -> c.s
      [] c.t = "int" -> IntToStr(c.m)
      [] c.t = "float" -> FloatToStr(c.m, c.e)
      [] c.t = "nan" -> <<"n", "a", "n">>
      [] c.t = "none" -> <<"N", "o", "n", "e">>

\* str.split(","): the parts between the commas, "" gives one empty part
RECURSIVE SplitComma(_)
SplitComma(s) ==
    IF \E i \in 1..Len(s) : s[i] = ","
    THEN LET i == CHOOSE k \in 1..Len(s) :
                      s[k] = "," /\ \A j \in 1..(k - 1) : s[j] # ","
         IN <<SubSeq(s, 1, i - 1)>> \o SplitComma(SubSeq(s, i + 1, Len(s)))
    ELSE <<s>>

\* str.strip(): leading and trailing whitespace removed
RECURSIVE Strip(_)
Strip(s) ==
    IF s = <<>> THEN s
    ELSE IF s[1] \in Whitespace THEN Strip(Tail(s))
    ELSE IF s[Len(s)] \in Whitespace THEN Strip(SubSeq(s, 1, Len(s) - 1))
    ELSE s

\* the longest run of digits of s that starts at position i (its last index)
RECURSIVE DigitsEnd(_, _)
DigitsEnd(s, i) ==
    IF i + 1 <= Len(s) /\ s[i + 1] \in Digits THEN DigitsEnd(s, i + 1) ELSE i

\* re.search(r"(\d{4})", s): the leftmost four consecutive digits, or <<>>
RECURSIVE SearchYear(_, _)
SearchYear(s, i) ==
    IF i + 3 > Len(s) THEN <<>>
    ELSE IF \A k \in i..(i + 3) : s[k] \in Digits THEN SubSeq(s, i, i + 3)
    ELSE SearchYear(s, i + 1)

\* re.match of [-+]?\d+(?:\.\d+)? at position i: the matched text, or <<>>
MatchNumberAt(s, i) ==
    LET d == IF s[i] \in Signs THEN i + 1 ELSE i
    IN IF d > Len(s) \/ s[d] \notin Digits THEN <<>>
       ELSE LET ie == DigitsEnd(s, d)
                fe == IF ie + 2 <= Len(s) /\ s[ie + 1] = "."
                         /\ s[ie + 2] \in Digits
                      THEN DigitsEnd(s, ie + 2) ELSE ie
            IN SubSeq(s, i, fe)

\* mutant of SearchNumber: re.match, the pattern tried at position i only
SearchNumberAnchored(s, i) ==
    IF i > Len(s) THEN <<>> ELSE MatchNumberAt(s, i)

\* re.search of the number pattern from position i on: leftmost match, or <<>>
RECURSIVE SearchNumber(_, _)
SearchNumber(s, i) ==
    IF i > Len(s) THEN <<>>
    ELSE IF MatchNumberAt(s, i) # <<>> THEN MatchNumberAt(s, i)
    ELSE SearchNumber(s, i + 1)

\* the number a matched text denotes, as mantissa and decimal exponent
RECURSIVE Normalize(_, _)
Normalize(m, e) ==
    IF e > 0 /\ m % 10 = 0 THEN Normalize(m \div 10, e - 1)
    ELSE [m |-> m, e |-> e]

ParseNumber(txt) ==
    LET neg == txt[1] = "-"
        body == IF txt[1] \in Signs THEN Tail(txt) ELSE txt
        ie == DigitsEnd(body, 1)
        frac == IF ie < Len(body) THEN SubSeq(body, ie + 2, Len(body)) ELSE <<>>
        mag == Normalize(StrToInt(SubSeq(body, 1, ie) \o frac), Len(frac))
    IN [m |-> IF neg THEN 0 - mag.m ELSE mag.m, e |-> mag.e]

HasFraction(txt) == \E i \in 1..Len(txt) : txt[i] = "."

-----------------------------------------------------------------------------
(* DataFrames: [columns |-> sequence of names, rows |-> sequence of rows],   *)
(* a row being the sequence of its cells in column order.                    *)

COL_UNIT == <<"u", "n", "i", "t">>

COL_SEX == <<"s", "e", "x">>

COL_AGE == <<"a", "g", "e">>

COL_REGION == <<"r", "e", "g", "i", "o", "n">>

COL_YEAR == <<"y", "e", "a", "r">>

COL_VALUE == <<"v", "a", "l", "u", "e">>

SplitNames == <<COL_UNIT, COL_SEX, COL_AGE, COL_REGION>>

OutColumns == <<COL_UNIT, COL_SEX, COL_AGE, COL_REGION, COL_YEAR, COL_VALUE>>

\* position of the column called name
ColIndex(t, name) ==
    CHOOSE j \in 1..Len(t.columns) :
        t.columns[j] = name /\ \A k \in 1..(j - 1) : t.columns[k] # name

HasColumn(t, name) == \E j \in 1..Len(t.columns) : t.columns[j] = name

Max(S) == CHOOSE x \in S : \A y \in S : y <= x

\* txt is a whole number as read_csv reads it: an optional sign and digits
IsIntText(txt) ==
    LET d == IF txt # <<>> /\ txt[1] \in Signs THEN 2 ELSE 1
    IN d <= Len(txt) /\ \A k \in d..Len(txt) : txt[k] \in Digits

\* txt is a number as read_csv reads it: an optional sign, then digits with
\* at most one "." among them, and at least one digit
IsFloatText(txt) ==
    LET d == IF txt # <<>> /\ txt[1] \in Signs THEN 2 ELSE 1
    IN /\ \A k \in d..Len(txt) : txt[k] \in Digits \cup {"."}
       /\ Cardinality({k \in d..Len(txt) : txt[k] = "."}) <= 1
       /\ \E k \in d..Len(txt) : txt[k] \in Digits

\* the number read_csv reads from a number text ("1." is 1, ".5" is 0.5)
ReadNumber(txt) ==
    LET neg == txt[1] = "-"
        body == IF txt[1] \in Signs THEN Tail(txt) ELSE txt
        dot == IF \E k \in 1..Len(body) : body[k] = "."
               THEN CHOOSE k \in 1..Len(body) : body[k] = "."
               ELSE Len(body) + 1
        frac == SubSeq(body, dot + 1, Len(body))
        mag == Normalize(StrToInt(SubSeq(body, 1, dot - 1) \o frac), Len(frac))
    IN [m |-> IF neg THEN 0 - mag.m ELSE mag.m, e |-> mag.e]

\* pd.read_csv(RAW_FILE, sep="\t") on the parsed lines of the file: a column
\* of whole numbers is read as integers, a column of numbers and empty
\* fields as floats (NaN for an empty field), any other column as text
ReadCsv(file) ==
    LET N == Len(file.rows)
        Kind(j) ==
            IF N = 0 THEN "str"
            ELSE IF \A i \in 1..N : IsIntText(file.rows[i][j]) THEN "int"
            ELSE IF \A i \in 1..N :
                        file.rows[i][j] = <<>> \/ IsFloatText(file.rows[i][j])
                 THEN "float"
            ELSE "str"
        Cell(i, j) ==
            IF file.rows[i][j] = <<>> THEN NaNCell
            ELSE IF Kind(j) = "int" THEN IntCell(ReadNumber(file.rows[i][j]).m)
            ELSE IF Kind(j) = "float"
                 THEN FloatCell(ReadNumber(file.rows[i][j]).m,
                                ReadNumber(file.rows[i][j]).e)
            ELSE StrCell(file.rows[i][j])
    IN [columns |-> file.columns,
        rows |-> [i \in 1..N |-> [j \in 1..Len(file.columns) |-> Cell(i, j)]]]

\* the value columns of df have one numeric dtype between them, and it is
\* float: some cell is a float or NaN, and none is text
FloatValues(df) ==
    /\ \A i \in 1..Len(df.rows) : \A j \in 2..Len(df.columns) :
          df.rows[i][j].t \in {"int", "float", "nan"}
    /\ \E i \in 1..Len(df.rows) : \E j \in 2..Len(df.columns) :
          df.rows[i][j].t \in {"float", "nan"}

\* cell (i, j) of df in the value column of the long table: the columns are
\* stacked under their common dtype, so integers among floats become floats
MeltValue(df, i, j) ==
    IF df.rows[i][j].t = "int" /\ FloatValues(df)
    THEN FloatCell(df.rows[i][j].m, 0)
    ELSE df.rows[i][j]

\* mutant of Melt: one block of rows per input row
MeltRowMajor(df) ==
    LET N == Len(df.rows)
        K == Len(df.columns) - 1
    IN [columns |-> <<df.columns[1], COL_YEAR, COL_VALUE>>,
        rows |-> [k \in 1..(N * K) |->
                    LET i == ((k - 1) \div K) + 1
                        j == ((k - 1) % K) + 1
                    IN <<df.rows[i][1], StrCell(df.columns[j + 1]),
                         MeltValue(df, i, j + 1)>>]]

\* df.melt(id_vars=[id_col], var_name="year", value_name="value"):
\* one block of rows per value column, the blocks in column order
Melt(df) ==
    LET N == Len(df.rows)
        K == Len(df.columns) - 1
    IN [columns |-> <<df.columns[1], COL_YEAR, COL_VALUE>>,
        rows |-> [k \in 1..(N * K) |->
                    LET j == ((k - 1) \div N) + 1
                        i == ((k - 1) % N) + 1
                    IN <<df.rows[i][1], StrCell(df.columns[j + 1]),
                         MeltValue(df, i, j + 1)>>]]

\* mutant of AfterMelt: the identifier column is popped off the caller's frame
AfterMeltInPlace(h, df) ==
    Append([h EXCEPT ![df] =
               [columns |-> Tail(h[df].columns),
                rows |-> [k \in 1..Len(h[df].rows) |-> Tail(h[df].rows[k])]]],
           Melt(h[df]))

\* the heap after long_df = df.melt(...): melt works on a copy of the frame, so
\* the caller's frame is left alone and the long table is a new object
AfterMelt(h, df) ==
    Append(h, Melt(h[df]))

\* mutant of SplitExpand: always four columns, further parts discarded
SplitExpandFour(long) ==
    LET parts == [k \in 1..Len(long.rows) |-> SplitComma(long.rows[k][1].s)]
    IN [columns |-> [j \in 1..4 |-> NatToStr(j - 1)],
        rows |-> [k \in 1..Len(parts) |->
                    [j \in 1..4 |->
                        IF j <= Len(parts[k]) THEN StrCell(parts[k][j])
                        ELSE NoneCell]]]

\* long_df[id_col].str.split(",", expand=True): as many columns, labelled
\* 0, 1, ..., as the longest split has parts (none for an empty series),
\* shorter splits padded with None
SplitExpand(long) ==
    LET parts == [k \in 1..Len(long.rows) |-> SplitComma(long.rows[k][1].s)]
        width == IF parts = <<>> THEN 0
                 ELSE Max({Len(parts[k]) : k \in 1..Len(parts)})
    IN [columns |-> [j \in 1..width |-> NatToStr(j - 1)],
        rows |-> [k \in 1..Len(parts) |->
                    [j \in 1..width |->
                        IF j <= Len(parts[k]) THEN StrCell(parts[k][j])
                        ELSE NoneCell]]]

\* mutant of StripColumns: the parts are not trimmed
StripColumnsUntrimmed(t) ==
    [columns |-> t.columns,
     rows |-> [k \in 1..Len(t.rows) |->
                 [j \in 1..Len(t.columns) |-> StrCell(AsStr(t.rows[k][j]))]]]

\* split_cols.apply(lambda s: s.astype(str).str.strip())
StripColumns(t) ==
    [columns |-> t.columns,
     rows |-> [k \in 1..Len(t.rows) |->
                 [j \in 1..Len(t.columns) |-> StrCell(Strip(AsStr(t.rows[k][j])))]]]

\* pd.concat([split_cols, long_df[["year", "value"]]], axis=1)
ConcatColumns(split, long) ==
    [columns |-> split.columns \o <<COL_YEAR, COL_VALUE>>,
     rows |-> [k \in 1..Len(split.rows) |->
                 split.rows[k] \o <<long.rows[k][ColIndex(long, COL_YEAR)],
                                    long.rows[k][ColIndex(long, COL_VALUE)]>>]]

\* a table with column name replaced by col (one cell per row)
WithColumn(t, name, col) ==
    [columns |-> t.columns,
     rows |-> [k \in 1..Len(t.rows) |->
                 [t.rows[k] EXCEPT ![ColIndex(t, name)] = col[k]]]]

\* mutant of ExtractYear: a header without a year counts as year 0000
ExtractYearLenient(t) ==
    [k \in 1..Len(t.rows) |->
        LET y == SearchYear(AsStr(t.rows[k][ColIndex(t, COL_YEAR)]), 1)
        IN IF y = <<>> THEN <<"0", "0", "0", "0">> ELSE y]

\* long_df["year"].astype(str).str.extract(r"(\d{4})"): the matched text
\* of each row, <<>> where nothing matches
ExtractYear(t) ==
    [k \in 1..Len(t.rows) |-> SearchYear(AsStr(t.rows[k][ColIndex(t, COL_YEAR)]), 1)]

\* long_df["value"].astype(str).str.extract(r"([-+]?\d+(?:\.\d+)?)", expand=False)
ExtractValue(t) ==
    [k \in 1..Len(t.rows) |-> SearchNumber(AsStr(t.rows[k][ColIndex(t, COL_VALUE)]), 1)]

\* pd.to_numeric(value_num, errors="coerce"): an integer column when every
\* text is a whole number, a float column (NaN where nothing matched) otherwise
ToNumeric(texts) ==
    LET whole == \A k \in 1..Len(texts) : texts[k] # <<>> /\ ~HasFraction(texts[k])
    IN [k \in 1..Len(texts) |->
          IF texts[k] = <<>> THEN NaNCell
          ELSE LET n == ParseNumber(texts[k])
               IN IF whole THEN IntCell(n.m) ELSE FloatCell(n.m, n.e)]

\* rows[mask]: the rows whose entry in the boolean mask is TRUE, in order
RECURSIVE SelectRows(_, _, _)
SelectRows(rows, mask, k) ==
    IF k > Len(rows) THEN <<>>
    ELSE (IF mask[k] THEN <<rows[k]>> ELSE <<>>) \o SelectRows(rows, mask, k + 1)

\* mutant of DropNa: no row is dropped
DropNaNothing(t) ==
    [columns |-> t.columns, rows |-> t.rows]

\* long_df.dropna(subset=["value"])
DropNa(t) ==
    LET v == ColIndex(t, COL_VALUE)
    IN [columns |-> t.columns,
        rows |-> SelectRows(t.rows,
                            [k \in 1..Len(t.rows) |-> t.rows[k][v].t # "nan"], 1)]

\* long_df[long_df["region"] == country_code]
FilterRegion(t, code) ==
    LET g == ColIndex(t, COL_REGION)
    IN [columns |-> t.columns,
        rows |-> SelectRows(t.rows,
                            [k \in 1..Len(t.rows) |->
                                t.rows[k][g].t = "str" /\ t.rows[k][g].s = code], 1)]

\* filtered[["unit", "sex", "age", "region", "year", "value"]]
Project(t) ==
    [columns |-> OutColumns,
     rows |-> [k \in 1..Len(t.rows) |->
                 [j \in 1..Len(OutColumns) |-> t.rows[k][ColIndex(t, OutColumns[j])]]]]

\* mutant of ToCsv: index=False forgotten, every line starts with the row label
ToCsvWithIndex(t) ==
    <<<<<<>>>> \o t.columns>> \o
        [k \in 1..Len(t.rows) |->
            <<NatToStr(k - 1)>> \o
                [j \in 1..Len(t.columns) |->
                    IF t.rows[k][j].t \in {"nan", "none"} THEN <<>>
                    ELSE AsStr(t.rows[k][j])]]

\* df.to_csv(output_path, index=False): the header line, then one line per
\* row; a line is the sequence of its fields
ToCsv(t) ==
    <<t.columns>> \o
        [k \in 1..Len(t.rows) |->
            [j \in 1..Len(t.columns) |->
                IF t.rows[k][j].t \in {"nan", "none"} THEN <<>>
                ELSE AsStr(t.rows[k][j])]]

-----------------------------------------------------------------------------
(* Files *)

RAW_FILE == "eu_life_expectancy_raw.tsv"

OUT_FILE == "pt_life_expectancy.csv"

Paths == {RAW_FILE, OUT_FILE}

MissingFile == [exists |-> FALSE, data |-> <<>>]

FileOf(d) == [exists |-> TRUE, data |-> d]

\* mutant of WriteCsv: the CSV is appended to what the file holds
WriteCsvAppend(files, df, output_path) ==
    [files EXCEPT ![output_path] = FileOf(@.data \o ToCsv(df))]

\* save_data(df, output_path): the file at output_path is replaced by the CSV
WriteCsv(files, df, output_path) ==
    [files EXCEPT ![output_path] = FileOf(ToCsv(df))]

-----------------------------------------------------------------------------
(* Inputs: the raw files, the country codes and the earlier output drawn by  *)
(* Init.  A raw file is held as its lines split into fields: the header      *)
(* names, then the texts of the fields of each data line.                    *)

ID_COLUMN == <<"g", "e", "o">>

ID_PT == <<"Y", ",", " ", "M", ",", "1", ",", " ", "P", "T", " ">>

ID_DE == <<"Y", ",", "F", ",", "1", ",", "D", "E">>

ID_LOWER == <<"Y", ",", "M", ",", "1", ",", "p", "t">>

ID_THREE == <<"Y", ",", "M", ",", "P", "T">>

ID_FIVE == <<"Y", ",", "M", ",", "1", ",", "P", "T", ",", "x">>

HEADER_2010 == <<"2", "0", "1", "0">>

HEADER_2011 == <<"2", "0", "1", "1", " ">>

HEADER_BAD == <<"2", "0", "1", "x">>

PT == <<"P", "T">>

FR == <<"F", "R">>

CountryPool == {PT, FR}

IdPool == {ID_PT, ID_DE}

MalformedIdPool == {ID_PT, ID_THREE, ID_FIVE}

HeaderPool == {HEADER_2010, HEADER_2011, HEADER_BAD}

CellPool == {<<"7", ".", "5">>, <<":">>}

ValueAlphabet == {"-", "+", "1", ".", "p"}

ValueCellPool ==
    UNION {[1..n -> ValueAlphabet] : n \in 0..MaxCellLen}
        \cup {<<":">>, <<":", " ", "1">>,
              <<"1", "5", ".", "6", " ", "p">>,
              <<"-", "3", ".", "2">>,
              <<"7", "2", ".", "3", "0">>}

SeqsUpTo(S, n) == UNION {[1..k -> S] : k \in 0..n}

Distinct(q) == \A i, j \in 1..Len(q) : i # j => q[i] # q[j]

\* the files with the given identifiers and year headers, fields from cells
Frames(ids, headers, cells) ==
    {[columns |-> <<ID_COLUMN>> \o headers,
      rows |-> [i \in 1..Len(ids) |-> <<ids[i]>> \o body[i]]] :
        body \in [1..Len(ids) -> [1..Len(headers) -> cells]]}

Shapes(idPool, headerPool) ==
    {sh \in SeqsUpTo(idPool, MaxRows) \X SeqsUpTo(headerPool, MaxYears) :
        Distinct(sh[2]) /\ Len(sh[1]) * Len(sh[2]) <= MaxCells}

\* files of every shape, with well-formed identifiers
MainFrames == UNION {Frames(sh[1], sh[2], CellPool) : sh \in Shapes(IdPool, HeaderPool)}

\* files with identifiers of three, four and five parts
MalformedFrames ==
    UNION {Frames(sh[1], sh[2], CellPool) :
             sh \in Shapes(MalformedIdPool, {HEADER_2010})}

\* one-cell files over every short cell text, and with a lower-case region
ValueFrames ==
    Frames(<<ID_PT>>, <<HEADER_2010>>, ValueCellPool)
        \cup Frames(<<ID_LOWER>>, <<HEADER_2010>>, CellPool)

\* one-row files with whole and decimal numbers in two year columns
NumericFrames ==
    Frames(<<ID_PT>>, <<HEADER_2010, HEADER_2011>>, {<<"8">>, <<"7", ".", "5">>})

RawFrames == MainFrames \cup MalformedFrames \cup ValueFrames \cup NumericFrames

\* what an earlier run may have left at OUT_FILE
OLD_OUTPUT ==
    <<OutColumns,
      <<<<"Y">>, <<"F">>, <<"1">>, <<"E", "S">>, <<"2", "0", "0", "9">>,
        <<"8", "0", ".", "1">>>>>>

-----------------------------------------------------------------------------
(* The run of main *)

NoEnv == [df |-> 0, long_df |-> 0, split_cols |-> 0, filtered |-> 0, cleaned |-> 0]

NoRun == [valid |-> FALSE, country |-> <<>>, out |-> MissingFile]

Init ==
    /\ \E raw \in {MissingFile} \cup {FileOf(f) : f \in RawFrames},
          out \in {MissingFile, FileOf(OLD_OUTPUT)} :
            fs = [p \in Paths |-> IF p = RAW_FILE THEN raw ELSE out]
    /\ pc = "idle"
    /\ country = PT
    /\ heap = <<>>
    /\ env = NoEnv
    /\ prevRun = NoRun

\* main, _parse_args: a new process starts with the requested country code
ParseArgs ==
    /\ pc \in {"idle", "done", "failed"}
    /\ \E c \in CountryPool : country' = c
    /\ pc' = "load"
    /\ heap' = <<>>
    /\ env' = NoEnv
    /\ prevRun' = IF pc = "done"
                  THEN [valid |-> TRUE, country |-> country, out |-> fs[OUT_FILE]]
                  ELSE prevRun
    /\ UNCHANGED fs

\* raw = load_data()
LoadData ==
    /\ pc = "load"
    /\ IF fs[RAW_FILE].exists
       THEN /\ heap' = <<ReadCsv(fs[RAW_FILE].data)>>
            /\ env' = [env EXCEPT !.df = 1]
            /\ pc' = "melt"
       ELSE /\ pc' = "failed"
            /\ UNCHANGED <<heap, env>>
    /\ UNCHANGED <<fs, country, prevRun>>

\* long_df = df.melt(...)
CleanMelt ==
    /\ pc = "melt"
    /\ heap' = AfterMelt(heap, env.df)
    /\ env' = [env EXCEPT !.long_df = Len(heap) + 1]
    /\ pc' = "split"
    /\ UNCHANGED <<fs, country, prevRun>>

\* split_cols = long_df[id_col].str.split(",", expand=True)
CleanSplit ==
    /\ pc = "split"
    /\ heap' = Append(heap, SplitExpand(heap[env.long_df]))
    /\ env' = [env EXCEPT !.split_cols = Len(heap) + 1]
    /\ pc' = "names"
    /\ UNCHANGED <<fs, country, prevRun>>

\* split_cols.columns = ["unit", "sex", "age", "region"]: the names are set
\* on the object itself; ValueError when it does not have four columns
CleanNames ==
    /\ pc = "names"
    /\ IF Len(heap[env.split_cols].columns) = Len(SplitNames)
       THEN /\ heap' = [heap EXCEPT ![env.split_cols].columns = SplitNames]
            /\ pc' = "strip"
       ELSE /\ pc' = "failed"
            /\ UNCHANGED heap
    /\ UNCHANGED <<fs, country, env, prevRun>>

\* split_cols = split_cols.apply(lambda s: s.astype(str).str.strip())
CleanStrip ==
    /\ pc = "strip"
    /\ heap' = Append(heap, StripColumns(heap[env.split_cols]))
    /\ env' = [env EXCEPT !.split_cols = Len(heap) + 1]
    /\ pc' = "concat"
    /\ UNCHANGED <<fs, country, prevRun>>

\* long_df = pd.concat([split_cols, long_df[["year", "value"]]], axis=1)
CleanConcat ==
    /\ pc = "concat"
    /\ heap' = Append(heap, ConcatColumns(heap[env.split_cols], heap[env.long_df]))
    /\ env' = [env EXCEPT !.long_df = Len(heap) + 1]
    /\ pc' = "year"
    /\ UNCHANGED <<fs, country, prevRun>>

\* long_df["year"] = ....str.extract(r"(\d{4})").astype(int): the column is
\* replaced in long_df itself; astype(int) raises on a row without a match
CleanYear ==
    /\ pc = "year"
    /\ LET texts == ExtractYear(heap[env.long_df])
       IN IF \E k \in 1..Len(texts) : texts[k] = <<>>
          THEN /\ pc' = "failed"
               /\ UNCHANGED heap
          ELSE /\ heap' = [heap EXCEPT ![env.long_df] =
                              WithColumn(@, COL_YEAR,
                                  [k \in 1..Len(texts) |-> IntCell(StrToInt(texts[k]))])]
               /\ pc' = "value"
    /\ UNCHANGED <<fs, country, env, prevRun>>

\* long_df["value"] = pd.to_numeric(value_num, errors="coerce"): in long_df itself
CleanValue ==
    /\ pc = "value"
    /\ heap' = [heap EXCEPT ![env.long_df] =
                   WithColumn(@, COL_VALUE, ToNumeric(ExtractValue(@)))]
    /\ pc' = "dropna"
    /\ UNCHANGED <<fs, country, env, prevRun>>

\* long_df = long_df.dropna(subset=["value"])
CleanDropna ==
    /\ pc = "dropna"
    /\ heap' = Append(heap, DropNa(heap[env.long_df]))
    /\ env' = [env EXCEPT !.long_df = Len(heap) + 1]
    /\ pc' = "filter"
    /\ UNCHANGED <<fs, country, prevRun>>

\* filtered = long_df[long_df["region"] == country_code]
CleanFilter ==
    /\ pc = "filter"
    /\ heap' = Append(heap, FilterRegion(heap[env.long_df], country))
    /\ env' = [env EXCEPT !.filtered = Len(heap) + 1]
    /\ pc' = "project"
    /\ UNCHANGED <<fs, country, prevRun>>

\* return filtered[[...]]; cleaned = clean_data(raw, country_code=args.country)
CleanReturn ==
    /\ pc = "project"
    /\ heap' = Append(heap, Project(heap[env.filtered]))
    /\ env' = [env EXCEPT !.cleaned = Len(heap) + 1]
    /\ pc' = "save"
    /\ UNCHANGED <<fs, country, prevRun>>

\* save_data(cleaned)
SaveData ==
    /\ pc = "save"
    /\ fs' = WriteCsv(fs, heap[env.cleaned], OUT_FILE)
    /\ pc' = "done"
    /\ UNCHANGED <<country, heap, env, prevRun>>

Next ==
    \/ ParseArgs
    \/ LoadData
    \/ CleanMelt
    \/ CleanSplit
    \/ CleanNames
    \/ CleanStrip
    \/ CleanConcat
    \/ CleanYear
    \/ CleanValue
    \/ CleanDropna
    \/ CleanFilter
    \/ CleanReturn
    \/ SaveData

Spec == Init /\ [][Next]_vars

-----------------------------------------------------------------------------
(* Vocabulary of the properties, stated on the raw table itself *)

Loaded == fs[RAW_FILE].exists

\* the raw table: the frame load_data reads from the raw file
Raw == ReadCsv(fs[RAW_FILE].data)

Returned == pc \in {"save", "done"}

Cleaned == heap[env.cleaned]

NRows(f) == Len(f.rows)

NYears(f) == Len(f.columns) - 1

CellsOf(f) == (1..NRows(f)) \X (1..NYears(f))

PartsOf(f, i) == SplitComma(f.rows[i][1].s)

FourParts(f) == \A i \in 1..NRows(f) : Len(PartsOf(f, i)) = 4

\* the n-th field of input row i: its trimmed n-th part, the text None when
\* the identifier has fewer parts
FieldOf(f, i, n) ==
    IF n <= Len(PartsOf(f, i)) THEN Strip(PartsOf(f, i)[n])
    ELSE <<"N", "o", "n", "e">>

TextOf(f, i, j) == AsStr(f.rows[i][j + 1])

ContainsDigit(txt) == \E k \in 1..Len(txt) : txt[k] \in Digits

StartsWithNumber(txt) ==
    /\ txt # <<>>
    /\ \/ txt[1] \in Digits
       \/ txt[1] \in Signs /\ Len(txt) >= 2 /\ txt[2] \in Digits

HasYear(h) == \E a \in 1..(Len(h) - 3) : \A k \in a..(a + 3) : h[k] \in Digits

GoodHeaders(f) == \A j \in 1..NYears(f) : HasYear(f.columns[j + 1])

\* txt[a..b] is an optional sign, digits, and optionally "." and digits
IsNumberText(txt, a, b) ==
    LET d == IF txt[a] \in Signs THEN a + 1 ELSE a
    IN /\ d <= b
       /\ \E p \in d..b :
            /\ \A k \in d..p : txt[k] \in Digits
            /\ \/ p = b
               \/ /\ p + 2 <= b
                  /\ txt[p + 1] = "."
                  /\ \A k \in (p + 2)..b : txt[k] \in Digits

\* txt[a..b] is the leftmost occurrence of a number text, and the longest there
IsFirstNumber(txt, a, b) ==
    /\ IsNumberText(txt, a, b)
    /\ \A a2 \in 1..(a - 1) : \A b2 \in a2..Len(txt) : ~IsNumberText(txt, a2, b2)
    /\ \A b2 \in (b + 1)..Len(txt) : ~IsNumberText(txt, a, b2)

\* what identifies a cleaned row: its four fields, its year and its value
RowKey(r) == <<r[1].s, r[2].s, r[3].s, r[4].s, r[5].m, r[6].m, r[6].e>>

\* the cleaned row that cell (i, j) of the raw table gives
KeyOf(f, i, j) ==
    LET n == ParseNumber(SearchNumber(TextOf(f, i, j), 1))
    IN <<FieldOf(f, i, 1), FieldOf(f, i, 2), FieldOf(f, i, 3), FieldOf(f, i, 4),
         StrToInt(SearchYear(f.columns[j + 1], 1)), n.m, n.e>>

\* cell (i, j) is to be kept: its region is the requested code and its text
\* holds a number
Kept(f, code, i, j) == FieldOf(f, i, 4) = code /\ ContainsDigit(TextOf(f, i, j))

KeptCells(f, code) == {c \in CellsOf(f) : Kept(f, code, c[1], c[2])}

OutKeys == [k \in 1..Len(Cleaned.rows) |-> RowKey(Cleaned.rows[k])]

Occurrences(q, x) == Cardinality({k \in 1..Len(q) : q[k] = x})

-----------------------------------------------------------------------------
(* C1: for a raw table with four-part identifiers, the rows clean_data
   returns are exactly the cells whose trimmed region equals the requested
   code and whose text holds a number, each as often as it occurs in the
   raw table (duplicates are kept), and every returned row carries the
   requested region. *)
C1_ExactRows ==
    (Returned /\ FourParts(Raw)) =>
        /\ \A k \in 1..Len(Cleaned.rows) : Cleaned.rows[k][4] = StrCell(country)
        /\ Len(Cleaned.rows) = Cardinality(KeptCells(Raw, country))
        /\ \A c \in KeptCells(Raw, country) :
              Occurrences(OutKeys, KeyOf(Raw, c[1], c[2])) =
                  Cardinality({d \in KeptCells(Raw, country) :
                                  KeyOf(Raw, d[1], d[2]) = KeyOf(Raw, c[1], c[2])})

\* a returned table with a duplicated row, from a raw table that also holds
\* a parseable cell of another region
C1_Witness ==
    /\ Returned
    /\ FourParts(Raw)
    /\ \E k, l \in 1..Len(Cleaned.rows) : k # l /\ Cleaned.rows[k] = Cleaned.rows[l]
    /\ \E c \in CellsOf(Raw) :
          /\ FieldOf(Raw, c[1], 4) = <<"D", "E">>
          /\ ContainsDigit(TextOf(Raw, c[1], c[2]))

-----------------------------------------------------------------------------
\* the cells of the raw table whose region is the requested code and whose
\* text begins with a number
LeadingCells(f, code) ==
    {c \in CellsOf(f) :
        FieldOf(f, c[1], 4) = code /\ StartsWithNumber(TextOf(f, c[1], c[2]))}

(* C2 as stated: only a cell whose text begins with a number (optional sign,
   digits, optional fraction) is emitted; a cell that begins with another
   character is dropped even if digits occur later. *)
C2_LeadingPrefixOnly ==
    Returned => Len(Cleaned.rows) <= Cardinality(LeadingCells(Raw, country))

(* C2, amended: value coercion uses the first occurrence of the number
   pattern anywhere in the cell's text.  A cell is dropped exactly when its
   text holds no digit; the value of an emitted row is the number written by
   the leftmost, longest number text of its cell, whatever precedes or
   follows it ("15.6 p" gives 15.6, "-3.2" gives -3.2). *)
C2_FirstNumberAnywhere ==
    Returned =>
        /\ Len(Cleaned.rows) = Cardinality(KeptCells(Raw, country))
        /\ \A k \in 1..Len(Cleaned.rows) :
              \E c \in KeptCells(Raw, country) :
                 \E a \in 1..Len(TextOf(Raw, c[1], c[2])) :
                    \E b \in a..Len(TextOf(Raw, c[1], c[2])) :
                       LET txt == TextOf(Raw, c[1], c[2])
                           n == ParseNumber(SubSeq(txt, a, b))
                       IN /\ IsFirstNumber(txt, a, b)
                          /\ Cleaned.rows[k][6].m = n.m
                          /\ Cleaned.rows[k][6].e = n.e
        /\ \A c \in KeptCells(Raw, country) :
              /\ TextOf(Raw, c[1], c[2]) = <<"1", "5", ".", "6", " ", "p">>
                    => \E k \in 1..Len(Cleaned.rows) :
                          Cleaned.rows[k][6].m = 156 /\ Cleaned.rows[k][6].e = 1
              /\ TextOf(Raw, c[1], c[2]) = <<"-", "3", ".", "2">>
                    => \E k \in 1..Len(Cleaned.rows) :
                          Cleaned.rows[k][6].m = 0 - 32 /\ Cleaned.rows[k][6].e = 1

\* a row emitted for a cell whose text begins with a flag, its number later
C2_Witness ==
    /\ Returned
    /\ Len(Cleaned.rows) = 1
    /\ \E c \in KeptCells(Raw, country) :
          /\ TextOf(Raw, c[1], c[2]) = <<"p", "-", "1">>
          /\ Cleaned.rows[1][6].m = 0 - 1

(* C3: on every raw table with four-part identifiers and year headers that
   hold four digits, of any size, and for every code, clean_data returns
   without error a table with exactly the columns unit, sex, age, region,
   year, value. *)
C3_AlwaysSixColumns ==
    (Loaded /\ FourParts(Raw) /\ GoodHeaders(Raw)) =>
        /\ pc # "failed"
        /\ Returned => Cleaned.columns = OutColumns

-----------------------------------------------------------------------------
MostParts(f) == Max({0} \cup {Len(PartsOf(f, i)) : i \in 1..NRows(f)})

PastNames ==
    pc \in {"strip", "concat", "year", "value", "dropna", "filter", "project",
            "save", "done"}

C5_NoOutputOnFailure ==
    [][/\ (~Loaded \/ ~GoodHeaders(Raw)) =>
              (pc' \notin {"save", "done"} /\ fs' = fs)
       /\ pc' = "failed" => fs' = fs
       /\ fs' # fs => (pc = "save" /\ pc' = "done")]_vars

\* a run failed on a bad year header, the earlier output still in place,
\* although the requested code matches a parseable cell under that header
C5_Witness ==
    /\ pc = "failed"
    /\ Loaded
    /\ ~GoodHeaders(Raw)
    /\ FourParts(Raw)
    /\ fs[OUT_FILE] = FileOf(OLD_OUTPUT)
    /\ \E c \in KeptCells(Raw, country) : ~HasYear(Raw.columns[c[2] + 1])

(* C6: when clean_data returns, it returns at most (input rows x year
   columns) rows, and exactly that many only if every cell holds a number
   and every input row's region is the requested code. *)
C6_RowCount ==
    Returned =>
        /\ Len(Cleaned.rows) <= NRows(Raw) * NYears(Raw)
        /\ Len(Cleaned.rows) = NRows(Raw) * NYears(Raw) =>
              /\ \A c \in CellsOf(Raw) : ContainsDigit(TextOf(Raw, c[1], c[2]))
              /\ \A i \in 1..NRows(Raw) : FieldOf(Raw, i, 4) = country

\* a table returned with as many rows as the raw table has cells
C6_Witness ==
    /\ Returned
    /\ NRows(Raw) * NYears(Raw) >= 2
    /\ Len(Cleaned.rows) = NRows(Raw) * NYears(Raw)

(* C7: a run of main on the same raw table and the same country code as the
   last successful run leaves the output file exactly as that run left it. *)
C7_SameInputSameOutput ==
    (pc = "done" /\ prevRun.valid /\ prevRun.country = country)
        => fs[OUT_FILE] = prevRun.out

\* a second successful run with the same code, its output holding rows
C7_Witness ==
    /\ pc = "done"
    /\ prevRun.valid
    /\ prevRun.country = country
    /\ Len(Cleaned.rows) >= 2

(* C8: every successful run of main leaves at OUT_FILE, whatever the country
   code, exactly the CSV of the table it cleaned - the header line and one
   line per cleaned row - whatever the file held before, and leaves the
   other file alone. *)
C8_OverwritesInFull ==
    [][(pc = "save" /\ pc' = "done") =>
          /\ fs'[OUT_FILE].exists
          /\ Len(fs'[OUT_FILE].data) = 1 + Len(Cleaned.rows)
          /\ fs'[OUT_FILE].data[1] = OutColumns
          /\ \A k \in 1..Len(Cleaned.rows) :
                \A j \in 1..Len(OutColumns) :
                    fs'[OUT_FILE].data[k + 1][j] = AsStr(Cleaned.rows[k][j])
          /\ fs'[RAW_FILE] = fs[RAW_FILE]]_vars

\* a run with another code has replaced an earlier output that held rows
C8_Witness ==
    /\ pc = "done"
    /\ prevRun.valid
    /\ prevRun.country # country
    /\ Len(prevRun.out.data) > 1
    /\ fs[OUT_FILE] # prevRun.out
    /\ Len(fs[OUT_FILE].data) = 1

-----------------------------------------------------------------------------
\* the cells of the raw table, row after row
IdentifierMajor(f) ==
    [k \in 1..(NRows(f) * NYears(f)) |->
        <<((k - 1) \div NYears(f)) + 1, ((k - 1) % NYears(f)) + 1>>]

\* the cells of the raw table, year column after year column
YearMajor(f) ==
    [k \in 1..(NRows(f) * NYears(f)) |->
        <<((k - 1) % NRows(f)) + 1, ((k - 1) \div NRows(f)) + 1>>]

\* the cleaned rows of the kept cells among cells, in the order of cells
RECURSIVE KeptKeys(_, _, _, _)
KeptKeys(f, code, cells, k) ==
    IF k > Len(cells) THEN <<>>
    ELSE (IF Kept(f, code, cells[k][1], cells[k][2])
          THEN <<KeyOf(f, cells[k][1], cells[k][2])>> ELSE <<>>)
             \o KeptKeys(f, code, cells, k + 1)

(* C9 as stated: the returned rows are in identifier-major, then year-minor
   order: all surviving rows of the first input row come before those of
   the second, and so on. *)
C9_IdentifierMajorOrder ==
    Returned => OutKeys = KeptKeys(Raw, country, IdentifierMajor(Raw), 1)

(* C9, amended: the returned rows are in year-column-major, then input-row
   order, as the unpivot step produces them and the drop and filter steps
   preserve them: all surviving rows of the first year column (in input-row
   order) come before all surviving rows of the second year column. *)
C9_YearMajorOrder ==
    Returned => OutKeys = KeptKeys(Raw, country, YearMajor(Raw), 1)

\* a returned table on which the two orders differ
C9_Witness ==
    /\ Returned
    /\ NRows(Raw) = 2
    /\ NYears(Raw) = 2
    /\ Len(Cleaned.rows) >= 3
    /\ KeptKeys(Raw, country, IdentifierMajor(Raw), 1)
          # KeptKeys(Raw, country, YearMajor(Raw), 1)

\* the objects of the running invocation that exist before and after a step
Surviving == {o \in 1..Len(heap) : o <= Len(heap')}

(* C10 as stated: no table is changed after it is created. *)
C10_NoTableEverMutated ==
    [][\A o \in Surviving : heap'[o] = heap[o]]_vars

(* C10, amended: clean_data never changes the caller's raw table, which has
   the same columns, rows and cells after clean_data returns or fails as
   when it was loaded; reshape, split, strip, concat, drop, filter and
   projection each produce a new table and change no existing one.  The
   naming of the split columns and the year and value coercions change
   the intermediate table they work on in place, and no other table. *)
C10_RawTableUnchanged ==
    [][/\ env'.df # 0 => heap'[env'.df] = Raw
       /\ pc \notin {"names", "year", "value"} =>
             \A o \in Surviving : heap'[o] = heap[o]
       /\ pc = "names" =>
             \A o \in Surviving \ {env.split_cols} : heap'[o] = heap[o]
       /\ pc \in {"year", "value"} =>
             \A o \in Surviving \ {env.long_df} : heap'[o] = heap[o]]_vars

\* clean_data has returned: the raw table is as loaded, while the table the
\* coercions worked on no longer holds the year headers it was created with
C10_Witness ==
    /\ Returned
    /\ heap[env.df] = Raw
    /\ NRows(Raw) >= 2
    /\ \E o \in 1..Len(heap) :
          /\ HasColumn(heap[o], COL_YEAR)
          /\ HasColumn(heap[o], COL_UNIT)
          /\ Len(heap[o].rows) = NRows(Raw) * NYears(Raw)
          /\ heap[o].rows[1][ColIndex(heap[o], COL_YEAR)].t = "int"
          /\ heap[o].rows[1][ColIndex(heap[o], COL_VALUE)].t \in {"int", "float", "nan"}

=============================================================================
